---- MODULE Spec2Model ----
(***************************************************************************)
(* Model of src/flask/app.py: the student-history feature derivation       *)
(* (get_history_features) and the prediction request handler (index).      *)
(*                                                                         *)
(* Python str values are sequences of one-character strings, so that       *)
(* strip(), split(), startswith(), int() and float() are computed and not  *)
(* assumed.  Floating-point values are exact fractions [num, den] in       *)
(* lowest terms with den > 0, and NaN is [0, 0].  A Python dict is a       *)
(* function whose DOMAIN is its key set.  A call that can raise returns    *)
(* [raised, value].                                                        *)
(***************************************************************************)
EXTENDS Integers, Sequences, FiniteSets, TLC

(***************************************************************************)
(* Bounds of the model.                                                    *)
(***************************************************************************)
\* largest number of rows of the historical dataset that is enumerated
MaxRows == 2

(***************************************************************************)
(* Python str operations.                                                  *)
(***************************************************************************)
Whitespace == {" "}
Digits == {"0", "1", "2", "3", "4", "5", "6", "7", "8", "9"}

DigitVal(c) ==
    CASE c = "0" -> 0 [] c = "1" -> 1 [] c = "2" -> 2 [] c = "3" -> 3
      [] c = "4" -> 4 [] c = "5" -> 5 [] c = "6" -> 6 [] c = "7" -> 7
      [] c = "8" -> 8 [] c = "9" -> 9

RECURSIVE lstrip(_)
lstrip(s) ==
    IF s = <<>> THEN s
    ELSE IF Head(s) \in Whitespace THEN lstrip(Tail(s)) ELSE s

RECURSIVE rstrip(_)
rstrip(s) ==
    IF s = <<>> THEN s
    ELSE IF s[Len(s)] \in Whitespace THEN rstrip(SubSeq(s, 1, Len(s) - 1)) ELSE s

\* str.strip(); the CHOOSE over a one-element set evaluates its argument once
strip(s) == CHOOSE r \in {rstrip(t) : t \in {lstrip(s)}} : TRUE

\* the non-whitespace run at the start of s (s does not start with whitespace)
RECURSIVE FirstRun(_)
FirstRun(s) ==
    IF s = <<>> THEN <<>>
    ELSE IF Head(s) \in Whitespace THEN <<>>
    ELSE <<Head(s)>> \o FirstRun(Tail(s))

\* str.split()[0]: IndexError when the string has no non-whitespace character
split_first(s) ==
    LET t == lstrip(s)
    IN  IF t = <<>> THEN [raised |-> TRUE, value |-> <<>>]
        ELSE [raised |-> FALSE, value |-> FirstRun(t)]

\* str.startswith(prefix)
startswith(s, prefix) ==
    /\ Len(prefix) <= Len(s)
    /\ SubSeq(s, 1, Len(prefix)) = prefix

(***************************************************************************)
(* Numbers.                                                                *)
(***************************************************************************)
RECURSIVE GCD(_, _)
GCD(a, b) == IF b = 0 THEN a ELSE GCD(b, a % b)

Abs(n) == IF n < 0 THEN -n ELSE n

\* what the mean of an empty column is
NaN == [num |-> 0, den |-> 0]

\* the fraction n/d in lowest terms; NaN when d = 0
Frac(n, d) ==
    IF d = 0 THEN NaN
    ELSE LET g == GCD(Abs(n), d)
         IN  [num |-> n \div g, den |-> d \div g]

Num(n) == Frac(n, 1)

RECURSIVE DigitsValue(_)
DigitsValue(s) ==
    IF s = <<>> THEN 0
    ELSE 10 * DigitsValue(SubSeq(s, 1, Len(s) - 1)) + DigitVal(s[Len(s)])

RECURSIVE Pow10(_)
Pow10(k) == IF k = 0 THEN 1 ELSE 10 * Pow10(k - 1)

AllDigits(s) == \A i \in 1..Len(s) : s[i] \in Digits

Unsigned(s) == IF s # <<>> /\ Head(s) \in {"+", "-"} THEN Tail(s) ELSE s
Sign(s) == IF s # <<>> /\ Head(s) = "-" THEN -1 ELSE 1

\* int() of the stripped text t: one sign is accepted, then digits only
int_of(t) ==
    IF Unsigned(t) # <<>> /\ AllDigits(Unsigned(t))
    THEN [raised |-> FALSE, value |-> Sign(t) * DigitsValue(Unsigned(t))]
    ELSE [raised |-> TRUE, value |-> 0]

\* int(str): surrounding whitespace is dropped
py_int(s) == CHOOSE r \in {int_of(t) : t \in {strip(s)}} : TRUE

DotAt(u) == {i \in 1..Len(u) : u[i] = "."}

\* float() of the stripped text t, for decimal literals: one sign, then
\* digits with at most one decimal point
float_of(t) ==
    LET u == Unsigned(t)
        dots == DotAt(u)
        p == IF dots = {} THEN Len(u) + 1 ELSE CHOOSE i \in dots : TRUE
        ip == SubSeq(u, 1, p - 1)
        fp == SubSeq(u, p + 1, Len(u))
    IN  IF /\ Cardinality(dots) <= 1
           /\ AllDigits(ip) /\ AllDigits(fp)
           /\ Len(ip) + Len(fp) > 0
        THEN [raised |-> FALSE,
              value |-> Frac(Sign(t) * (DigitsValue(ip) * Pow10(Len(fp)) + DigitsValue(fp)),
                             Pow10(Len(fp)))]
        ELSE [raised |-> TRUE, value |-> Num(0)]

\* float(str): surrounding whitespace is dropped
py_float(s) == CHOOSE r \in {float_of(t) : t \in {strip(s)}} : TRUE

RECURSIVE SumOf(_, _)
SumOf(rows, col) ==
    IF rows = <<>> THEN 0 ELSE rows[1][col] + SumOf(Tail(rows), col)

\* Series.mean() of a numeric column
mean(rows, col) == Frac(SumOf(rows, col), Len(rows))

BoolRows(rows, col) == SelectSeq(rows, LAMBDA r : r[col])

\* Series.mean() of a boolean column: the share of True
mean_bool(rows, col) == Frac(Len(BoolRows(rows, col)), Len(rows))


(***************************************************************************)
(* Process-wide state set at import, and the state of the request being    *)
(* handled.                                                                *)
(***************************************************************************)
VARIABLES
    student_data_df,  \* [columns, rows]: the historical records frame
    FEATURES,         \* the ordered feature-name list
    model,            \* "trained" (unpickled) or "dummy" (unfitted fallback)
    call,             \* last direct get_history_features call: [student_id, course_code]
    result,           \* what that call returned or that it raised
    pc,               \* position of the request in index()
    form,             \* request.form of the request being handled
    locals,           \* sid, code, pre, cr, att, hist, mid, fin, asm, data, df_in
    proba,            \* positive-class probability from the classifier, in percent
    response          \* [prediction, probability, flashed] rendered to the caller

vars == <<student_data_df, FEATURES, model, call, result, pc, form, locals, proba,
          response>>

(***************************************************************************)
(* Course codes and historical rows.                                       *)
(***************************************************************************)
MATH201 == <<"M", "A", "T", "H", " ", "2", "0", "1">>
CS101 == <<"C", "S", " ", "1", "0", "1">>
CSE101 == <<"C", "S", "E", " ", "1", "0", "1">>

CourseCodes == {MATH201, CS101, CSE101}

\* the two score profiles of the records used (total, midterm, final,
\* assignment, attendance, passed)
Row(s, c, pr, hi) ==
    [student_id |-> s, course_code |-> c, has_prerequisites |-> pr,
     total_score |-> IF hi THEN 70 ELSE 40,
     midterm_score |-> IF hi THEN 65 ELSE 35,
     final_score |-> IF hi THEN 75 ELSE 45,
     assignment_score |-> IF hi THEN 70 ELSE 40,
     attendance_rate |-> IF hi THEN 90 ELSE 60,
     passed |-> hi]

RowUniverse ==
    {Row(42, c, pr, hi) : c \in CourseCodes, pr \in BOOLEAN, hi \in BOOLEAN}
      \cup {Row(7, CS101, TRUE, hi) : hi \in BOOLEAN}

SeqsUpTo(S, n) == UNION {[1..k -> S] : k \in 0..n}

\* pd.read_csv succeeded: a frame with the record columns
Loaded(rows) == [columns |-> TRUE, rows |-> rows]
\* pd.DataFrame(): no columns, no rows
EmptyFrame == [columns |-> FALSE, rows |-> <<>>]

(***************************************************************************)
(* Feature lists.                                                          *)
(***************************************************************************)
DefaultFeatures ==
    <<"has_prerequisites", "credits", "attendance_rate",
      "midterm_score", "final_score", "assignment_score",
      "past_avg_total_score", "past_avg_midterm_score", "past_avg_final_score",
      "past_avg_assignment_score", "past_avg_attendance", "past_pass_rate",
      "courses_taken", "dept_pass_rate", "prereq_avg_score", "prereq_pass_rate">>

\* contents feature_list.txt may have: the schema in another order and
\* narrower, and the schema with a name no step of index() produces
ReorderedFeatures ==
    <<"past_pass_rate", "midterm_score", "attendance_rate", "courses_taken",
      "dept_pass_rate", "has_prerequisites">>
ExtraColumnFeatures == DefaultFeatures \o <<"total_score">>

\* outcomes of the two startup loads of the feature list and the model
Artifacts ==
    {[FEATURES |-> DefaultFeatures, model |-> "dummy"],
     [FEATURES |-> DefaultFeatures, model |-> "trained"],
     [FEATURES |-> ReorderedFeatures, model |-> "trained"],
     [FEATURES |-> ExtraColumnFeatures, model |-> "trained"]}

\* k.startswith('past_') over the feature names in use
StartsWithPast(k) ==
    k \in {"past_avg_total_score", "past_avg_midterm_score", "past_avg_final_score",
           "past_avg_assignment_score", "past_avg_attendance", "past_pass_rate"}

NamedHistoryKeys ==
    {"courses_taken", "dept_pass_rate", "prereq_avg_score", "prereq_pass_rate"}

(***************************************************************************)
(* get_history_features.                                                   *)
(***************************************************************************)
NoCode == [given |-> FALSE, text |-> <<>>]
Code(s) == [given |-> TRUE, text |-> s]

\* df[df['student_id'] == student_id]
student_rows(rows, student_id) ==
    SelectSeq(rows, LAMBDA r : r.student_id = student_id)

\* the dict returned for a student without records
zero_features(features) ==
    [k \in {features[i] : i \in {j \in 1..Len(features) :
                StartsWithPast(features[j]) \/ features[j] \in NamedHistoryKeys}}
       |-> Num(0)]

\* a version that selects the rows of course_code instead of dropping them
past_rows_same_course(recs, course_code) ==
    LET past == IF ~course_code.given THEN recs
                ELSE SelectSeq(recs, LAMBDA r : r.course_code = course_code.text)
    IN  IF past = <<>> THEN recs ELSE past

\* a version without the fallback to all of the student's rows
past_rows_no_fallback(recs, course_code) ==
    IF ~course_code.given THEN recs
    ELSE SelectSeq(recs, LAMBDA r : r.course_code # course_code.text)

\* recs, or recs without the rows of course_code; recs again if that is empty
past_rows(recs, course_code) ==
    LET past == IF ~course_code.given THEN recs
                ELSE SelectSeq(recs, LAMBDA r : r.course_code # course_code.text)
    IN  IF past = <<>> THEN recs ELSE past

base_features(past) ==
    [past_avg_total_score |-> mean(past, "total_score"),
     past_avg_midterm_score |-> mean(past, "midterm_score"),
     past_avg_final_score |-> mean(past, "final_score"),
     past_avg_assignment_score |-> mean(past, "assignment_score"),
     past_avg_attendance |-> mean(past, "attendance_rate"),
     past_pass_rate |-> mean_bool(past, "passed"),
     courses_taken |-> Num(Len(past))]

\* past[past['course_code'].str.startswith(dept)]
dept_rows(past, dept) ==
    SelectSeq(past, LAMBDA r : startswith(r.course_code, dept))

\* feats['dept_pass_rate']; raises when course_code.split() is empty
dept_pass_rate(past, course_code, overall) ==
    IF course_code.given /\ course_code.text # <<>>
    THEN LET dept == split_first(course_code.text)
             dept_past == dept_rows(past, dept.value)
         IN  IF dept.raised THEN [raised |-> TRUE, value |-> overall]
             ELSE [raised |-> FALSE,
                   value |-> IF dept_past # <<>> THEN mean_bool(dept_past, "passed")
                             ELSE overall]
    ELSE [raised |-> FALSE, value |-> overall]

prereq_rows(past) == BoolRows(past, "has_prerequisites")

prereq_features(past, feats) ==
    LET prereq_past == prereq_rows(past)
    IN  [prereq_avg_score |-> IF prereq_past # <<>> THEN mean(prereq_past, "total_score")
                              ELSE feats.past_avg_total_score,
         prereq_pass_rate |-> IF prereq_past # <<>> THEN mean_bool(prereq_past, "passed")
                              ELSE feats.past_pass_rate]

Raised == [raised |-> TRUE, value |-> <<>>]
Returned(v) == [raised |-> FALSE, value |-> v]

get_history_features(student_id, course_code) ==
    IF ~student_data_df.columns THEN Raised   \* KeyError: 'student_id'
    ELSE LET recs == student_rows(student_data_df.rows, student_id)
         IN  IF recs = <<>> THEN Returned(zero_features(FEATURES))
             ELSE LET past == past_rows(recs, course_code)
                      feats == base_features(past)
                      dept == dept_pass_rate(past, course_code, feats.past_pass_rate)
                      pre == prereq_features(past, feats)
                  IN  IF dept.raised THEN Raised
                      ELSE Returned(feats @@ ("dept_pass_rate" :> dept.value) @@ pre)


(***************************************************************************)
(* The request handler index(), POST branch.                               *)
(***************************************************************************)
Field(t) == [present |-> TRUE, text |-> t]
Missing == [present |-> FALSE, text |-> <<>>]

\* request.form[name]: raises when the field is not in the form
form_item(f, name) ==
    IF f[name].present THEN Returned(f[name].text) ELSE Raised

\* truth value of request.form.get(name): None and '' are false
truthy(input) == input.present /\ input.text # <<>>

FlashMessage == "Error during prediction. Please check inputs."

NoValue == [given |-> FALSE, value |-> Num(0)]
Value(v) == [given |-> TRUE, value |-> v]

BlankLocals ==
    [sid |-> 0, code |-> <<>>, pre |-> 0, cr |-> Num(0), att |-> Num(0),
     hist |-> <<>>, mid |-> Num(0), fin |-> Num(0), asm |-> Num(0),
     data |-> <<>>, df_in |-> <<>>,
     prediction |-> "None", probability |-> NoValue, raised_at |-> "none"]

BlankResponse == [prediction |-> "None", probability |-> NoValue, flashed |-> ""]

\* a version that shows the caller the exception it caught
error_response_detail(l) ==
    [prediction |-> l.prediction, probability |-> l.probability,
     flashed |-> "Prediction error: exception text"]

\* the except clause and the final render: prediction and probability as
\* they are at that point, and the flashed message
error_response(l) ==
    [prediction |-> l.prediction, probability |-> l.probability,
     flashed |-> FlashMessage]

\* lines 136-140
parsed(f, sid, pre, cr, att) ==
    IF \/ form_item(f, "student_id").raised \/ sid.raised
       \/ form_item(f, "course_code").raised
       \/ form_item(f, "has_prerequisites").raised \/ pre.raised
       \/ form_item(f, "credits").raised \/ cr.raised
       \/ form_item(f, "attendance").raised \/ att.raised
    THEN Raised
    ELSE Returned([sid |-> sid.value, code |-> strip(form_item(f, "course_code").value),
                   pre |-> pre.value, cr |-> cr.value, att |-> att.value])

parse_required(f) ==
    CHOOSE r \in {parsed(f, sid, pre, cr, att) :
                    sid \in {py_int(form_item(f, "student_id").value)},
                    pre \in {py_int(form_item(f, "has_prerequisites").value)},
                    cr \in {py_float(form_item(f, "credits").value)},
                    att \in {py_float(form_item(f, "attendance").value)}} : TRUE

\* a version that takes 0 for a score the caller left out
score_or_zero(input, hist, key) ==
    IF truthy(input)
    THEN LET v == py_float(input.text)
         IN  IF v.raised THEN Raised ELSE Returned(v.value)
    ELSE Returned(Num(0))

\* float(x_input) if x_input else hist[key]
score_or_history(input, hist, key) ==
    IF truthy(input)
    THEN LET v == py_float(input.text)
         IN  IF v.raised THEN Raised ELSE Returned(v.value)
    ELSE IF key \in DOMAIN hist THEN Returned(hist[key]) ELSE Raised

\* the dict built at lines 159-167; on a repeated key the later entry wins
merged_record(l, hist, mid, fin, asm) ==
    hist @@ [has_prerequisites |-> Num(l.pre), credits |-> l.cr,
             attendance_rate |-> l.att, midterm_score |-> mid,
             final_score |-> fin, assignment_score |-> asm]

\* a version that fills a column the record lacks with 0 (a reindex)
select_features_reindex(data, features) ==
    Returned([i \in 1..Len(features) |->
                [name |-> features[i],
                 value |-> IF features[i] \in DOMAIN data THEN data[features[i]]
                           ELSE Num(0)]])

\* pd.DataFrame(data)[FEATURES]: KeyError when a name is not a column
select_features(data, features) ==
    IF \A i \in 1..Len(features) : features[i] \in DOMAIN data
    THEN Returned([i \in 1..Len(features) |->
                     [name |-> features[i], value |-> data[features[i]]]])
    ELSE Raised

\* a version with a strict threshold
classify_strict(p) == IF 2 * p.num > p.den THEN "Yes" ELSE "No"

\* 'Yes' if proba >= 0.5 else 'No'
classify(p) == IF 2 * p.num >= p.den THEN "Yes" ELSE "No"

(***************************************************************************)
(* Requests enumerated.                                                    *)
(***************************************************************************)
\* the required fields of a well-formed request, and the requests that
\* differ from it in one required field
BaseRequired ==
    [student_id |-> Field(<<"4", "2">>), course_code |-> Field(MATH201),
     has_prerequisites |-> Field(<<"1">>), credits |-> Field(<<"3", ".", "5">>),
     attendance |-> Field(<<"8", "0">>)]

RequiredFields ==
    {BaseRequired}
      \cup {[BaseRequired EXCEPT !.student_id = v] :
               v \in {Field(<<"9">>), Field(<<"x">>), Missing}}
      \cup {[BaseRequired EXCEPT !.course_code = v] :
               v \in {Field(<<" ">> \o CS101 \o <<" ">>), Field(<<>>), Missing}}
      \cup {[BaseRequired EXCEPT !.has_prerequisites = v] :
               v \in {Field(<<"0">>), Field(<<"2">>), Field(<<"x">>), Missing}}
      \cup {[BaseRequired EXCEPT !.credits = v] :
               v \in {Field(<<"9">>), Field(<<"x">>), Missing}}
      \cup {[BaseRequired EXCEPT !.attendance = v] : v \in {Field(<<"x">>), Missing}}

OptionalFields ==
    [midterm : {Missing, Field(<<>>), Field(<<"0">>), Field(<<"5", "0">>), Field(<<"x">>)},
     final : {Missing, Field(<<"6", "0">>)},
     assignment : {Field(<<>>), Field(<<"5", "5">>)}]

Forms == {r @@ o : r \in RequiredFields, o \in OptionalFields}

Terminal == {"Completed", "Rejected", "Failed"}

\* a POST request arrives (lines 131-134)
Receive ==
    /\ pc = "Idle"
    /\ pc' = "Received"
    /\ form' \in Forms
    /\ locals' = BlankLocals
    /\ proba' = NoValue
    /\ response' = BlankResponse
    /\ UNCHANGED <<student_data_df, FEATURES, model, call, result>>

\* lines 136-140, and 179-186 when one of them raises
Validate ==
    /\ pc = "Received"
    /\ \E r \in {parse_required(form)} :
          IF r.raised
          THEN /\ pc' = "Rejected"
               /\ locals' = [locals EXCEPT !.raised_at = "parse"]
               /\ response' = error_response(locals)
          ELSE /\ pc' = "Validated"
               /\ locals' = [locals EXCEPT !.sid = r.value.sid, !.code = r.value.code,
                                           !.pre = r.value.pre, !.cr = r.value.cr,
                                           !.att = r.value.att]
               /\ UNCHANGED response
    /\ UNCHANGED <<student_data_df, FEATURES, model, call, result, form, proba>>

Fail(l, where) ==
    /\ pc' = "Failed"
    /\ locals' = [l EXCEPT !.raised_at = where]
    /\ response' = error_response(l)

\* lines 143-170, and 179-186 when one of them raises
DeriveFeatures ==
    /\ pc = "Validated"
    /\ \E h \in {get_history_features(locals.sid, Code(locals.code))} :
       \E mid \in {score_or_history(form.midterm, h.value, "past_avg_midterm_score")} :
       \E fin \in {score_or_history(form.final, h.value, "past_avg_final_score")} :
       \E asm \in {score_or_history(form.assignment, h.value, "past_avg_assignment_score")} :
       \E data \in {merged_record(locals, h.value, mid.value, fin.value, asm.value)} :
       \E df_in \in {select_features(data, FEATURES)} :
          IF h.raised THEN Fail(locals, "history")
          ELSE IF mid.raised \/ fin.raised \/ asm.raised
          THEN Fail([locals EXCEPT !.hist = h.value], "backfill")
          ELSE IF df_in.raised
          THEN Fail([locals EXCEPT !.hist = h.value, !.mid = mid.value,
                                   !.fin = fin.value, !.asm = asm.value,
                                   !.data = data], "select")
          ELSE /\ pc' = "FeaturesDerived"
               /\ locals' = [locals EXCEPT !.hist = h.value, !.mid = mid.value,
                                           !.fin = fin.value, !.asm = asm.value,
                                           !.data = data, !.df_in = df_in.value]
               /\ UNCHANGED response
    /\ UNCHANGED <<student_data_df, FEATURES, model, call, result, form, proba>>

\* positive-class probabilities the classifier may return
Probabilities == {Frac(n, 100) : n \in {0, 49, 50, 51, 100}}

\* lines 173-175 with the classifier returning p
ScoreReturns(p) ==
    /\ pc = "FeaturesDerived"
    /\ model = "trained"
    /\ proba' = Value(p)
    /\ locals' = [locals EXCEPT !.prediction = classify(p), !.probability = Value(p)]
    /\ pc' = "Scored"
    /\ UNCHANGED <<student_data_df, FEATURES, model, call, result, form, response>>

\* line 173 raising: always for the unfitted fallback classifier, possibly
\* for a trained one; then lines 179-186
ScoreRaises ==
    /\ pc = "FeaturesDerived"
    /\ Fail(locals, "predict")
    /\ UNCHANGED <<student_data_df, FEATURES, model, call, result, form, proba>>

\* lines 178 and 183-186 after a prediction
Render ==
    /\ pc = "Scored"
    /\ pc' = "Completed"
    /\ response' = [prediction |-> locals.prediction,
                    probability |-> locals.probability, flashed |-> ""]
    /\ UNCHANGED <<student_data_df, FEATURES, model, call, result, form, locals, proba>>

\* the two MATH 201 records of student 42, and a history across departments
TwoMathRows == <<Row(42, MATH201, TRUE, TRUE), Row(42, MATH201, FALSE, FALSE)>>
MixedRows ==
    <<Row(42, CSE101, FALSE, FALSE), Row(42, MATH201, TRUE, TRUE),
      Row(7, CS101, TRUE, TRUE)>>

ServedFrames == {EmptyFrame, Loaded(<<>>), Loaded(TwoMathRows), Loaded(MixedRows)}

Init ==
    /\ student_data_df \in ServedFrames
    /\ \E a \in Artifacts : FEATURES = a.FEATURES /\ model = a.model
    /\ call = [student_id |-> 0, course_code |-> NoCode]
    /\ result = [made |-> FALSE, raised |-> FALSE, value |-> <<>>]
    /\ pc = "Idle"
    /\ form = [k \in {} |-> Missing]
    /\ locals = BlankLocals
    /\ proba = NoValue
    /\ response = BlankResponse

Next ==
    \/ Receive
    \/ Validate
    \/ DeriveFeatures
    \/ \E p \in Probabilities : ScoreReturns(p)
    \/ ScoreRaises
    \/ Render

Spec == Init /\ [][Next]_vars

(***************************************************************************)
(* get_history_features called directly, over every dataset of up to       *)
(* MaxRows rows.                                                           *)
(***************************************************************************)
\* student 9 has no record in any dataset
CallStudents == {42, 7, 9}
\* course_code arguments: None, '', and stripped course codes, one of them
\* ("CS 201") of no record
CS201 == <<"C", "S", " ", "2", "0", "1">>
CallCodes == {NoCode, Code(<<>>)} \cup {Code(c) : c \in CourseCodes \cup {CS201}}

HistInit ==
    /\ student_data_df \in
          {EmptyFrame} \cup {Loaded(rows) : rows \in SeqsUpTo(RowUniverse, MaxRows)}
    /\ \E a \in Artifacts : FEATURES = a.FEATURES /\ model = a.model
    /\ call = [student_id |-> 0, course_code |-> NoCode]
    /\ result = [made |-> FALSE, raised |-> FALSE, value |-> <<>>]
    /\ pc = "Idle"
    /\ form = [k \in {} |-> Missing]
    /\ locals = BlankLocals
    /\ proba = NoValue
    /\ response = BlankResponse

CallHistory ==
    /\ ~result.made
    /\ \E s \in CallStudents, c \in CallCodes :
          /\ call' = [student_id |-> s, course_code |-> c]
          /\ \E r \in {get_history_features(s, c)} :
                result' = [made |-> TRUE, raised |-> r.raised, value |-> r.value]
    /\ UNCHANGED <<student_data_df, FEATURES, model, pc, form, locals, proba, response>>

HistNext == CallHistory

HistSpec == HistInit /\ [][HistNext]_vars


(***************************************************************************)
(* Properties of get_history_features (checked under HistSpec).            *)
(***************************************************************************)
Rows == student_data_df.rows

\* positions of the rows of student s, of those in another course than c,
\* and of the 'past' set
OwnIdx(s) == {i \in 1..Len(Rows) : Rows[i].student_id = s}
OtherCourseIdx(s, c) == {i \in OwnIdx(s) : Rows[i].course_code # c.text}
PastIdx(s, c) ==
    IF c.given /\ OtherCourseIdx(s, c) # {} THEN OtherCourseIdx(s, c) ELSE OwnIdx(s)

RECURSIVE SumIdx(_, _)
SumIdx(I, col) ==
    IF I = {} THEN 0
    ELSE LET i == CHOOSE j \in I : TRUE
         IN  Rows[i][col] + SumIdx(I \ {i}, col)

\* v is the fraction total / count
IsRatio(v, total, count) == v.den > 0 /\ v.num * count = total * v.den
IsMeanOver(v, I, col) == IsRatio(v, SumIdx(I, col), Cardinality(I))
PassedIn(I) == {i \in I : Rows[i].passed}
IsPassRateOver(v, I) == IsRatio(v, Cardinality(PassedIn(I)), Cardinality(I))

HasHistory(s) == student_data_df.columns /\ OwnIdx(s) # {}

\* C1: for a student with at least one record, each past_avg_* and
\* past_pass_rate is the unweighted mean of its field over the 'past' set and
\* courses_taken is the size of that set, where 'past' is the student's rows
\* of other courses than the requested one when there are any and all of the
\* student's rows otherwise; the two MATH 201 records give midterm 50,
\* attendance 75, pass rate 1/2 and courses_taken 2.
C1_HistoryMeans ==
    (result.made /\ HasHistory(call.student_id)) =>
        /\ ~result.raised
        /\ LET I == PastIdx(call.student_id, call.course_code)
               v == result.value
           IN  /\ IsMeanOver(v.past_avg_total_score, I, "total_score")
               /\ IsMeanOver(v.past_avg_midterm_score, I, "midterm_score")
               /\ IsMeanOver(v.past_avg_final_score, I, "final_score")
               /\ IsMeanOver(v.past_avg_assignment_score, I, "assignment_score")
               /\ IsMeanOver(v.past_avg_attendance, I, "attendance_rate")
               /\ IsPassRateOver(v.past_pass_rate, I)
               /\ v.courses_taken = Num(Cardinality(I))
        /\ (Rows = TwoMathRows /\ call.student_id = 42) =>
              /\ result.value.past_avg_midterm_score = Num(50)
              /\ result.value.past_avg_attendance = Num(75)
              /\ result.value.past_pass_rate = Frac(1, 2)
              /\ result.value.courses_taken = Num(2)

\* a call for MATH 201 by a student with one MATH 201 record and one other
\* record: the MATH 201 record is left out
C1_Witness ==
    /\ result.made /\ ~result.raised
    /\ student_data_df.columns
    /\ call = [student_id |-> 42, course_code |-> Code(MATH201)]
    /\ Cardinality(OwnIdx(42)) = 2
    /\ Cardinality(PastIdx(42, call.course_code)) = 1
    /\ result.value.courses_taken = Num(1)

HistoryKeys ==
    {"past_avg_total_score", "past_avg_midterm_score", "past_avg_final_score",
     "past_avg_assignment_score", "past_avg_attendance", "past_pass_rate",
     "courses_taken", "dept_pass_rate", "prereq_avg_score", "prereq_pass_rate"}

AllZero(v) == DOMAIN v = HistoryKeys /\ \A k \in HistoryKeys : v[k] = Num(0)

NoHistory(s) == ~student_data_df.columns \/ OwnIdx(s) = {}

\* C2: for a student with no record, with or without a course code,
\* get_history_features returns the ten history-derived keys, each 0.
C2_NoHistoryZeros ==
    (result.made /\ NoHistory(call.student_id)) =>
        ~result.raised /\ AllZero(result.value)

OnlyCourse(s, c) == \A i \in OwnIdx(s) : Rows[i].course_code = c

\* C8: when every record of the student is in course C, the call with C
\* returns what the call without a course code returns, key by key.
C8_SelfExclusion ==
    (/\ result.made /\ HasHistory(call.student_id)
     /\ call.course_code.given
     /\ OnlyCourse(call.student_id, call.course_code.text)) =>
        /\ ~result.raised
        /\ ~get_history_features(call.student_id, NoCode).raised
        /\ DOMAIN result.value = HistoryKeys
        /\ result.value = get_history_features(call.student_id, NoCode).value

\* two MATH 201 records, one passed, and a call for MATH 201
C8_Witness ==
    /\ result.made /\ ~result.raised
    /\ student_data_df.columns
    /\ call = [student_id |-> 42, course_code |-> Code(MATH201)]
    /\ Cardinality(OwnIdx(42)) = 2
    /\ OnlyCourse(42, MATH201)
    /\ result.value.courses_taken = Num(2)
    /\ result.value.dept_pass_rate = Frac(1, 2)

\* the part of a course code before its first space
RECURSIVE DeptOf(_)
DeptOf(c) ==
    IF c = <<>> \/ Head(c) = " " THEN <<>> ELSE <<Head(c)>> \o DeptOf(Tail(c))

DeptIdx(I, c) == {i \in I : DeptOf(Rows[i].course_code) = DeptOf(c)}

C3_LoadFailureServes ==
    ~student_data_df.columns =>
        /\ locals.raised_at # "history"
        /\ pc \in {"FeaturesDerived", "Scored", "Completed"} => AllZero(locals.hist)

\* the merged record was built
Merged ==
    \/ pc \in {"FeaturesDerived", "Scored", "Completed"}
    \/ pc = "Failed" /\ locals.raised_at \in {"select", "predict"}

Omitted(input) == ~input.present \/ input.text = <<>>

\* what get_history_features returns for the student and course of the form
FormHistory ==
    get_history_features(py_int(form.student_id.text).value,
                         Code(strip(form.course_code.text)))

Backfilled(input, key, past_key) ==
    IF Omitted(input)
    THEN /\ past_key \in DOMAIN FormHistory.value
         /\ locals.data[key] = FormHistory.value[past_key]
    ELSE locals.data[key] = py_float(input.text).value

\* C4: in the merged record each optional score is the caller's value when
\* one was supplied (a supplied 0 stays 0) and otherwise the past_avg_* value
\* that get_history_features returns for this student and course.
C4_Backfill ==
    Merged =>
        /\ ~FormHistory.raised
        /\ Backfilled(form.midterm, "midterm_score", "past_avg_midterm_score")
        /\ Backfilled(form.final, "final_score", "past_avg_final_score")
        /\ Backfilled(form.assignment, "assignment_score", "past_avg_assignment_score")
        /\ form.midterm = Field(<<"0">>) => locals.data["midterm_score"] = Num(0)
        /\ form.midterm = Field(<<"5", "0">>) => locals.data["midterm_score"] = Num(50)
        /\ form.final = Field(<<"6", "0">>) => locals.data["final_score"] = Num(60)

\* student 42 with the two MATH 201 records: midterm left out and taken
\* from history, final supplied
C4_Witness ==
    /\ pc = "Completed"
    /\ Rows = TwoMathRows /\ locals.sid = 42
    /\ form.midterm = Missing /\ form.final = Field(<<"6", "0">>)
    /\ form.assignment = Field(<<>>)
    /\ locals.data["midterm_score"] = Num(50)
    /\ locals.data["final_score"] = Num(60)
    /\ locals.data["assignment_score"] = Num(55)

FeatureNames == {FEATURES[i] : i \in 1..Len(FEATURES)}

\* C5: the frame handed to the classifier has the names of FEATURES in the
\* order of FEATURES, each with its value of the merged record, and nothing
\* else; when the merged record lacks a name of FEATURES the request fails
\* and nothing is handed to the classifier.
C5_SchemaComplete ==
    /\ pc \in {"FeaturesDerived", "Scored", "Completed"} =>
          /\ Len(locals.df_in) = Len(FEATURES)
          /\ \A i \in 1..Len(FEATURES) :
                /\ locals.df_in[i].name = FEATURES[i]
                /\ FEATURES[i] \in DOMAIN locals.data
                /\ locals.df_in[i].value = locals.data[FEATURES[i]]
    /\ (Merged /\ ~(FeatureNames \subseteq DOMAIN locals.data)) =>
          /\ pc = "Failed" /\ locals.raised_at = "select"
          /\ Len(locals.df_in) = 0
          /\ ~proba.given

\* a narrower, reordered feature list: the merged record has more keys than
\* the frame that was scored
C5_Witness ==
    /\ pc = "Scored"
    /\ FEATURES = ReorderedFeatures
    /\ student_data_df.columns /\ OwnIdx(locals.sid) # {}
    /\ FeatureNames # DOMAIN locals.data
    /\ Len(locals.df_in) = Len(FEATURES)

CreditsMin == 1
CreditsMax == 6

InBounds(v) == CreditsMin * v.den <= v.num /\ v.num <= CreditsMax * v.den

RequiredInvalid(f) ==
    \/ ~f.student_id.present \/ py_int(f.student_id.text).raised
    \/ ~f.course_code.present \/ strip(f.course_code.text) = <<>>
    \/ ~f.has_prerequisites.present \/ py_int(f.has_prerequisites.text).raised
    \/ py_int(f.has_prerequisites.text).value \notin {0, 1}
    \/ ~f.credits.present \/ py_float(f.credits.text).raised
    \/ ~InBounds(py_float(f.credits.text).value)
    \/ ~f.attendance.present \/ py_float(f.attendance.text).raised

\* C6: a request with an invalid required field is Rejected: it is never
\* validated, derived, scored or completed, and it never fails later.
C6_InvalidRejected ==
    (pc \notin {"Idle", "Received"} /\ RequiredInvalid(form)) => pc = "Rejected"

PcSteps ==
    {<<"Idle", "Received">>, <<"Received", "Validated">>, <<"Received", "Rejected">>,
     <<"Validated", "FeaturesDerived">>, <<"FeaturesDerived", "Scored">>,
     <<"Scored", "Completed">>}
      \cup {<<p, "Failed">> : p \in {"Received", "Validated", "FeaturesDerived", "Scored"}}

PcStep == <<pc, pc'>> \in PcSteps

Outcome ==
    /\ pc \in {"Idle", "Received", "Validated", "FeaturesDerived", "Scored"} \cup Terminal
    /\ (response.prediction # "None" \/ response.probability.given) => pc = "Completed"
    /\ pc = "Completed" =>
          /\ response.prediction \in {"Yes", "No"}
          /\ response.probability.given
          /\ response.flashed = ""
    /\ pc \in {"Rejected", "Failed"} =>
          response = [prediction |-> "None", probability |-> NoValue,
                      flashed |-> FlashMessage]
    /\ locals.raised_at # "none" <=> pc \in {"Rejected", "Failed"}
    /\ pc \notin Terminal => response = BlankResponse

\* C7: a request moves only along Received, Validated, FeaturesDerived,
\* Scored, Completed, or from Received to Rejected, or from a non-terminal
\* state to Failed; every raise ends in Rejected or Failed with the fixed
\* message and no label or probability; a label and a probability are
\* returned only in Completed; and a request is never stuck before
\* Completed, Rejected or Failed: each step moves it on along these
\* transitions, which have no cycle, so it ends in exactly one of the three.
C7_Lifecycle ==
    /\ [][PcStep]_vars
    /\ []Outcome
    /\ [](pc \in Terminal \/ ENABLED Next)

\* a request that failed when the feature columns were selected
C7_Witness ==
    /\ pc = "Failed" /\ locals.raised_at = "select"
    /\ response.flashed = FlashMessage /\ response.prediction = "None"

\* C10: the label of a scored request is 'Yes' (Pass) exactly when the
\* classifier's probability is at least 1/2, so 1/2 gives 'Yes', and the
\* probability returned with the label is that of the classifier.
C10_Threshold ==
    pc \in {"Scored", "Completed"} =>
        /\ proba.given
        /\ locals.prediction \in {"Yes", "No"}
        /\ locals.prediction = "Yes" <=> 2 * proba.value.num >= proba.value.den
        /\ proba.value = Frac(1, 2) => locals.prediction = "Yes"
        /\ locals.probability = proba
        /\ pc = "Completed" =>
              /\ response.prediction = locals.prediction
              /\ response.probability = proba

\* a completed request whose probability is exactly 1/2
C10_Witness ==
    /\ pc = "Completed"
    /\ proba = Value(Frac(1, 2))
    /\ response.prediction = "Yes"
    /\ response.probability = Value(Frac(1, 2))

====
